---- MODULE Spec2Model ----
(***************************************************************************)
(* Model of daily-job-search/fetch_jobs.py: three source fetchers, the     *)
(* deduplicator, the HTML renderer, the SendGrid notifier and main().      *)
(*                                                                         *)
(* Python str values are TLA+ strings.  A value whose Python type is not   *)
(* fixed by the code (a field of a decoded JSON object, a field of a job   *)
(* dict) is a tagged record: PyNone, PyStr(s), PyInt(n), PyMissing (the    *)
(* key is not in the dict).  The outcome of a call is Ret(v) or Raise(e).  *)
(***************************************************************************)
EXTENDS Integers, Sequences, FiniteSets, TLC

VARIABLES
    pc,          \* main(): the statement about to run, or "done" / "raised"
    apiKey,      \* SENDGRID_API_KEY as read from the environment (line 15)
    all_jobs,    \* main(): the local list all_jobs
    jobs,        \* main(): the local list jobs (dedupe_jobs' result)
    results,     \* what each fetcher call returned (<<>> before it is called)
    failed,      \* per fetcher: its except branch ran (the error was printed)
    trace,       \* the calls main() has made so far, in order
    html_body,   \* the argument main() passed to send_email
    message,     \* the Mail object send_email built, or NoMessage
    sent,        \* the messages submitted with sg.send, in order
    err,         \* the exception main() ended with, or NoExc
    call,        \* unit harness: the function applied and its argument
    ret,         \* unit harness: its outcome
    ret2         \* unit harness: the outcome of applying dedupe_jobs again

vars == <<pc, apiKey, all_jobs, jobs, results, failed, trace, html_body,
          message, sent, err, call, ret, ret2>>

mainVars == <<pc, apiKey, all_jobs, jobs, results, failed, trace, html_body,
              message, sent, err>>

unitVars == <<call, ret, ret2>>

-----------------------------------------------------------------------------
(* Python values and call outcomes                                         *)

PyNone == [t |-> "None"]

PyMissing == [t |-> "missing"]

PyStr(s) == [t |-> "str", v |-> s]

PyInt(n) == [t |-> "int", n |-> n]

IsStr(x) == x.t = "str"

\* bool(x) of Python: None, "" and 0 are falsy
Truthy(x) ==
    CASE x.t = "None" -> FALSE
      [] x.t = "missing" -> FALSE
      [] x.t = "str" -> x.v # ""
      [] x.t = "int" -> x.n # 0

\* d.get(k, default) on a field that may be missing from the dict
DictGet(x, default) == IF x = PyMissing THEN default ELSE x

\* d.get(k): None when the key is missing
DictGetNone(x) == DictGet(x, PyNone)

\* x or y
PyOr(x, y) == IF Truthy(x) THEN x ELSE y

NoExc == "none"

Ret(v) == [exc |-> NoExc, val |-> v]

Raise(e) == [exc |-> e]

Raised(o) == o.exc # NoExc

-----------------------------------------------------------------------------
(* str methods                                                             *)

Whitespace == {" ", "\t", "\n"}

Upper == <<"A","B","C","D","E","F","G","H","I","J","K","L","M",
           "N","O","P","Q","R","S","T","U","V","W","X","Y","Z">>

LowerOf == <<"a","b","c","d","e","f","g","h","i","j","k","l","m",
             "n","o","p","q","r","s","t","u","v","w","x","y","z">>

LowerChar(c) ==
    IF \E i \in 1..26 : Upper[i] = c
        THEN LowerOf[CHOOSE i \in 1..26 : Upper[i] = c]
        ELSE c

RECURSIVE Lower(_)
\* s.lower(), computed by halves
Lower(s) ==
    IF Len(s) = 0 THEN ""
    ELSE IF Len(s) = 1 THEN LowerChar(s)
    ELSE Lower(SubSeq(s, 1, Len(s) \div 2)) \o Lower(SubSeq(s, (Len(s) \div 2) + 1, Len(s)))

\* sub in s
Contains(s, sub) ==
    \E i \in 1..(Len(s) - Len(sub) + 1) : SubSeq(s, i, i + Len(sub) - 1) = sub

\* s.startswith(p)
StartsWith(s, p) == Len(s) >= Len(p) /\ SubSeq(s, 1, Len(p)) = p

RECURSIVE LStrip(_)
LStrip(s) ==
    IF s # "" /\ SubSeq(s, 1, 1) \in Whitespace
        THEN LStrip(SubSeq(s, 2, Len(s)))
        ELSE s

RECURSIVE RStrip(_)
RStrip(s) ==
    IF s # "" /\ SubSeq(s, Len(s), Len(s)) \in Whitespace
        THEN RStrip(SubSeq(s, 1, Len(s) - 1))
        ELSE s

\* s.strip()
Strip(s) == RStrip(LStrip(s))

RECURSIVE Repeat(_, _)
\* c * n, computed by halves
Repeat(c, n) ==
    IF n = 0 THEN ""
    ELSE IF n = 1 THEN c
    ELSE Repeat(c, n \div 2) \o Repeat(c, n - (n \div 2))

-----------------------------------------------------------------------------
(* HTTP responses as the fetchers see them                                 *)

\* requests.get raised (connection error, timeout after 15 s)
NetErr == [kind |-> "neterr"]

HttpResp(status, body) == [kind |-> "http", status |-> status, body |-> body]

\* resp.raise_for_status(): raises HTTPError for a 4xx or 5xx status
raise_for_status(resp) == resp.status >= 400 /\ resp.status < 600

PyList(items) == [t |-> "list", items |-> items]

-----------------------------------------------------------------------------
(* fetch_remotive                                                          *)

JobPosting(company, title, location, link, keywords, skills) ==
    [company |-> company, title |-> title, location |-> location,
     link |-> link, keywords |-> keywords, skills |-> skills]

RemotiveKeywords == "analysis; reporting; dashboards; metrics; data"

RemotiveSkills == "Python; SQL; Excel; BI tools; statistics"

\* the title filter left out
RemotiveTitleMatches_any(title) == TRUE

\* line 32: A or B and C parses as A or (B and C)
RemotiveTitleMatches(title) ==
    \/ Contains(Lower(title), "data analyst")
    \/ (Contains(Lower(title), "data") /\ Contains(Lower(title), "analyst"))

RemotiveJob(j, title) ==
    JobPosting(PyOr(DictGetNone(j.company_name), PyStr("-")),
               title,
               PyOr(DictGetNone(j.candidate_required_location), PyStr("Remote")),
               DictGetNone(j.url),
               RemotiveKeywords, RemotiveSkills)

RECURSIVE remotive_loop(_, _, _)
\* the for loop of lines 30-40 from listing i on, with `acc` appended so far
remotive_loop(data, i, acc) ==
    IF i > Len(data) THEN Ret(acc)
    ELSE LET j == data[i]
             title == DictGet(j.title, PyStr(""))
         IN  IF ~IsStr(title) THEN Raise("AttributeError")  \* title.lower()
             ELSE IF RemotiveTitleMatches(title.v)
                  THEN remotive_loop(data, i + 1, Append(acc, RemotiveJob(j, title.v)))
                  ELSE remotive_loop(data, i + 1, acc)

\* the try block of fetch_remotive, lines 26-41
remotive_try(resp) ==
    IF resp.kind = "neterr" THEN Raise("ConnectionError")
    ELSE IF raise_for_status(resp) THEN Raise("HTTPError")
    ELSE IF resp.body.json = "invalid" THEN Raise("JSONDecodeError")
    ELSE IF resp.body.json # "object" THEN Raise("AttributeError")  \* .get on a list
    ELSE LET data == DictGet(resp.body.jobs, PyList(<<>>))
         IN  IF data.t # "list" THEN Raise("TypeError")            \* for j in None
             ELSE remotive_loop(data.items, 1, <<>>)

fetch_remotive(resp) ==
    IF Raised(remotive_try(resp)) THEN Ret(<<>>) ELSE remotive_try(resp)

-----------------------------------------------------------------------------
(* fetch_topstartups and fetch_wellfound                                   *)

\* a.get_text(" ", strip=True) of an anchor holding one text node
get_text(a) == Strip(a.text)

\* urljoin(base, href) for a base without a path and an href that is a path
urljoin(base, href) ==
    IF StartsWith(href, "/") THEN base \o href ELSE base \o "/" \o href

TopStartupsBase == "https://topstartups.io"

WellfoundBase == "https://wellfound.com"

TopStartupsKeywords == "data; metrics; dashboards; insights; reporting"

TopStartupsSkills == "SQL; Python; visualization; data pipelines; statistics"

WellfoundKeywords == "data; metrics; reporting; dashboards; insights"

WellfoundSkills == "SQL; Python; Looker/Tableau; Excel; stats"

MaxTextLen == 200

\* <= for <
TopStartupsMatches_le(txt) ==
    Contains(Lower(txt), "analyst") /\ Len(txt) <= MaxTextLen

\* line 59
TopStartupsMatches(txt) ==
    Contains(Lower(txt), "analyst") /\ Len(txt) < MaxTextLen

\* line 88
WellfoundMatches(txt) ==
    \/ Contains(Lower(txt), "data analyst")
    \/ (Contains(Lower(txt), "data") /\ Contains(Lower(txt), "analyst"))

ScrapedJob(txt, href, base, keywords, skills) ==
    JobPosting(PyStr("-"), txt, PyStr("Remote"),
               PyStr(IF StartsWith(href, "http") THEN href ELSE urljoin(base, href)),
               keywords, skills)

RECURSIVE topstartups_loop(_, _, _)
\* the for loop of lines 54-68
topstartups_loop(anchors, i, acc) ==
    IF i > Len(anchors) THEN acc
    ELSE LET txt == get_text(anchors[i])
             href == anchors[i].href
         IN  IF href = "" \/ txt = "" THEN topstartups_loop(anchors, i + 1, acc)
             ELSE IF TopStartupsMatches(txt)
                  THEN topstartups_loop(anchors, i + 1,
                           Append(acc, ScrapedJob(txt, href, TopStartupsBase,
                                                  TopStartupsKeywords, TopStartupsSkills)))
                  ELSE topstartups_loop(anchors, i + 1, acc)

\* the try block of fetch_topstartups, lines 49-69
topstartups_try(resp) ==
    IF resp.kind = "neterr" THEN Raise("ConnectionError")
    ELSE IF raise_for_status(resp) THEN Raise("HTTPError")
    ELSE Ret(topstartups_loop(resp.body.anchors, 1, <<>>))

\* the try block without its except
fetch_topstartups_uncaught(resp) == topstartups_try(resp)

fetch_topstartups(resp) ==
    IF Raised(topstartups_try(resp)) THEN Ret(<<>>) ELSE topstartups_try(resp)

RECURSIVE wellfound_loop(_, _, _)
\* the for loop of lines 83-97
wellfound_loop(anchors, i, acc) ==
    IF i > Len(anchors) THEN acc
    ELSE LET txt == get_text(anchors[i])
             href == anchors[i].href
         IN  IF href = "" \/ txt = "" THEN wellfound_loop(anchors, i + 1, acc)
             ELSE IF WellfoundMatches(txt)
                  THEN wellfound_loop(anchors, i + 1,
                           Append(acc, ScrapedJob(txt, href, WellfoundBase,
                                                  WellfoundKeywords, WellfoundSkills)))
                  ELSE wellfound_loop(anchors, i + 1, acc)

\* the try block of fetch_wellfound, lines 78-98
wellfound_try(resp) ==
    IF resp.kind = "neterr" THEN Raise("ConnectionError")
    ELSE IF raise_for_status(resp) THEN Raise("HTTPError")
    ELSE Ret(wellfound_loop(resp.body.anchors, 1, <<>>))

fetch_wellfound(resp) ==
    IF Raised(wellfound_try(resp)) THEN Ret(<<>>) ELSE wellfound_try(resp)

-----------------------------------------------------------------------------
(* dedupe_jobs                                                             *)

\* the link compared untrimmed
JobKey_nostrip(j) ==
    LET link == PyOr(DictGetNone(j.link), PyStr(""))
        company == DictGet(j.company, PyStr(""))
    IN  IF ~IsStr(link) THEN Raise("AttributeError")
        ELSE IF link.v # "" THEN Ret(link.v)
        ELSE IF ~IsStr(company) THEN Raise("TypeError")
        ELSE Ret(company.v \o "|" \o j.title)

\* line 107: (j.get("link") or "").strip() or (j.get("company","") + "|" + j.get("title",""))
JobKey(j) ==
    LET link == PyOr(DictGetNone(j.link), PyStr(""))
        company == DictGet(j.company, PyStr(""))
    IN  IF ~IsStr(link) THEN Raise("AttributeError")        \* int has no strip
        ELSE IF Strip(link.v) # "" THEN Ret(Strip(link.v))
        ELSE IF ~IsStr(company) THEN Raise("TypeError")     \* int + str
        ELSE Ret(company.v \o "|" \o j.title)

RECURSIVE dedupe_loop_prepend(_, _, _, _)
\* out.insert(0, j) for out.append(j)
dedupe_loop_prepend(js, i, seen, out) ==
    IF i > Len(js) THEN Ret(out)
    ELSE LET key == JobKey(js[i])
         IN  IF Raised(key) THEN key
             ELSE IF key.val \in seen THEN dedupe_loop_prepend(js, i + 1, seen, out)
             ELSE dedupe_loop_prepend(js, i + 1, seen \cup {key.val}, <<js[i]>> \o out)

RECURSIVE dedupe_loop(_, _, _, _)
\* the for loop of lines 106-111
dedupe_loop(js, i, seen, out) ==
    IF i > Len(js) THEN Ret(out)
    ELSE LET key == JobKey(js[i])
         IN  IF Raised(key) THEN key
             ELSE IF key.val \in seen THEN dedupe_loop(js, i + 1, seen, out)
             ELSE dedupe_loop(js, i + 1, seen \cup {key.val}, Append(out, js[i]))

dedupe_jobs(js) == dedupe_loop(js, 1, {}, <<>>)

-----------------------------------------------------------------------------
(* build_html_table                                                        *)

Digits == <<"0","1","2","3","4","5","6","7","8","9">>

RECURSIVE NatStr(_)
NatStr(n) == IF n < 10 THEN Digits[n + 1] ELSE NatStr(n \div 10) \o Digits[(n % 10) + 1]

\* what an f-string puts for {x}: str(x)
PyFormat(x) ==
    CASE x.t = "str" -> x.v
      [] x.t = "int" -> IF x.n < 0 THEN "-" \o NatStr(-x.n) ELSE NatStr(x.n)
      [] OTHER -> "None"

\* lines 117-126
HtmlRow(j) ==
    "<tr>"
    \o "<td>" \o PyFormat(DictGetNone(j.company)) \o "</td>"
    \o "<td>" \o j.title \o "</td>"
    \o "<td>" \o PyFormat(DictGetNone(j.location)) \o "</td>"
    \o "<td><a href='" \o PyFormat(DictGetNone(j.link)) \o "'>Apply</a></td>"
    \o "<td>" \o j.keywords \o "</td>"
    \o "<td>" \o j.skills \o "</td>"
    \o "</tr>"

RECURSIVE HtmlRows(_, _)
HtmlRows(js, i) == IF i > Len(js) THEN "" ELSE HtmlRow(js[i]) \o HtmlRows(js, i + 1)

\* lines 127-135 around the rows (the dash of the heading is written -- here)
HtmlDocument(rows) ==
    "<h2>Daily Remote Data Analyst Jobs -- Consolidated</h2>"
    \o "<p>Source: Remotive API + TopStartups + Wellfound (best-effort scraping)</p>"
    \o "<table border='1' cellpadding='6' style='border-collapse:collapse;'>"
    \o "<thead><tr><th>Company</th><th>Title</th><th>Location</th><th>Link</th><th>Keywords</th><th>Skills</th></tr></thead>"
    \o "<tbody>"
    \o rows
    \o "</tbody></table>"

\* line 162
NoJobsFragment == "<p>No remote Data Analyst jobs found today.</p>"

\* the empty case of main() moved into the renderer
build_html_table_guarded(js) ==
    IF js = <<>> THEN NoJobsFragment ELSE HtmlDocument(HtmlRows(js, 1))

\* lines 114-136
build_html_table(js) == HtmlDocument(HtmlRows(js, 1))

-----------------------------------------------------------------------------
(* Bounded inputs                                                          *)

MaxListings == 2    \* listings in one API response

MaxAnchors == 2     \* anchors in one scraped page

MaxJobs == 3        \* jobs in a list handed to dedupe_jobs or build_html_table

SeqsUpTo(S, n) == UNION {[1..k -> S] : k \in 0..n}

Listing(title, company_name, location, url) ==
    [title |-> title, company_name |-> company_name,
     candidate_required_location |-> location, url |-> url]

LAcme == Listing(PyStr("Data Analyst"), PyStr("Acme"), PyStr("USA"), PyStr("https://x/1"))

LNoLink == Listing(PyStr("Senior Data Analyst"), PyMissing, PyMissing, PyNone)

LIntUrl == Listing(PyStr("Data Analyst"), PyStr("Acme"), PyMissing, PyInt(7))

LIntCompany == Listing(PyStr("DATA ANALYST II"), PyInt(5), PyNone, PyMissing)

LReversed == Listing(PyStr("Analyst of Data Systems"), PyStr(""), PyStr(""), PyStr(" https://x/1 "))

LScientist == Listing(PyStr("Data Scientist"), PyStr("Acme"), PyStr("USA"), PyStr("https://x/2"))

LNoTitle == Listing(PyMissing, PyStr("Acme"), PyStr("USA"), PyStr("https://x/3"))

LEmptyTitle == Listing(PyStr(""), PyStr("Acme"), PyStr("USA"), PyStr("https://x/4"))

LNullTitle == Listing(PyNone, PyStr("Acme"), PyStr("USA"), PyStr("https://x/5"))

Listings == {LAcme, LNoLink, LIntUrl, LIntCompany, LReversed, LScientist,
             LNoTitle, LEmptyTitle, LNullTitle}

JsonObject(jobsField) == [json |-> "object", jobs |-> jobsField]

RemotiveBodies ==
    {[json |-> "invalid"], [json |-> "list"], JsonObject(PyMissing), JsonObject(PyNone)}
    \cup {JsonObject(PyList(s)) : s \in SeqsUpTo(Listings, MaxListings)}

Statuses == {200, 404, 503}

RemotiveResponses ==
    {NetErr} \cup {HttpResp(st, b) : st \in Statuses, b \in RemotiveBodies}

Anchor(text, href) == [text |-> text, href |-> href]

LongText(n) == "Data Analyst " \o Repeat("x", n - 13)

Anchors ==
    {Anchor("Data Analyst", "https://x/1"),
     Anchor("Financial Analyst", "/jobs/2"),
     Anchor("  Remote DATA\tanalyst \n", "jobs/3"),
     Anchor("Data Engineer", "/jobs/4"),
     Anchor("Data Analyst", ""),
     Anchor("", "/jobs/5"),
     Anchor("  ", "/jobs/6"),
     Anchor(LongText(MaxTextLen - 1), "/jobs/7"),
     Anchor(LongText(MaxTextLen), "/jobs/8")}

Page(anchors) == [anchors |-> anchors]

PageResponses ==
    {NetErr} \cup {HttpResp(st, Page(s)) : st \in Statuses, s \in SeqsUpTo(Anchors, MaxAnchors)}

\* the responses main() is run against
MainListings == {LAcme, LNoLink, LIntUrl}

MainRemotiveResponses ==
    {NetErr, HttpResp(503, JsonObject(PyList(<<>>)))}
    \cup {HttpResp(200, JsonObject(PyList(s))) : s \in SeqsUpTo(MainListings, MaxListings)}

MainAnchors == {Anchor("Data Analyst", "https://x/1"), Anchor("Financial Analyst", "/jobs/2")}

MainPageResponses ==
    {NetErr, HttpResp(404, Page(<<>>))}
    \cup {HttpResp(200, Page(s)) : s \in SeqsUpTo(MainAnchors, MaxAnchors)}

\* os.getenv("SENDGRID_API_KEY"): unset, set to the empty string, or set
ApiKeys == {PyNone, PyStr(""), PyStr("SG.key")}

JAcme == JobPosting(PyStr("Acme"), "Data Analyst", PyStr("Remote"), PyStr("https://x/1"), "k", "s")

JobPool ==
    {JAcme,
     [JAcme EXCEPT !.company = PyStr("Beta"), !.link = PyStr(" https://x/1\n")],
     [JAcme EXCEPT !.link = PyNone],
     [JAcme EXCEPT !.link = PyMissing],
     [JAcme EXCEPT !.link = PyStr(" \t"), !.title = "Senior Data Analyst"],
     [JAcme EXCEPT !.link = PyStr("Acme|Data Analyst"), !.company = PyStr("-")],
     [JAcme EXCEPT !.link = PyInt(7)],
     [JAcme EXCEPT !.link = PyStr(""), !.company = PyInt(5)]}

-----------------------------------------------------------------------------
(* main() and send_email                                                   *)

Sources == 1..3

NoMessage == [subject |-> "none"]

ToEmail == "Tanko8668@gmail.com"

\* lines 141-146
Mail(html_content) ==
    [from_email |-> ToEmail, to_emails |-> ToEmail,
     subject |-> "Daily Remote Data Analyst Jobs", html_content |-> html_content]

Pending == [state |-> "pending"]

NoCall == [fn |-> "main"]

InitMain ==
    /\ pc = "fetch_remotive"
    /\ apiKey \in ApiKeys
    /\ all_jobs = <<>>
    /\ jobs = <<>>
    /\ results = [i \in Sources |-> <<>>]
    /\ failed = [i \in Sources |-> FALSE]
    /\ trace = <<>>
    /\ html_body = ""
    /\ message = NoMessage
    /\ sent = <<>>
    /\ err = NoExc

\* all_jobs.extend(<fetcher>()): the call's outcome o, the fetcher being source i
Extend(i, name, o, tryFailed, next) ==
    /\ trace' = Append(trace, name)
    /\ IF Raised(o)
         THEN /\ pc' = "raised"
              /\ err' = o.exc
              /\ UNCHANGED <<all_jobs, results, failed>>
         ELSE /\ pc' = next
              /\ all_jobs' = all_jobs \o o.val
              /\ results' = [results EXCEPT ![i] = o.val]
              /\ failed' = [failed EXCEPT ![i] = tryFailed]
              /\ err' = err
    /\ UNCHANGED <<apiKey, jobs, html_body, message, sent, unitVars>>

\* line 153
FetchRemotive ==
    /\ pc = "fetch_remotive"
    /\ \E resp \in MainRemotiveResponses :
          Extend(1, "fetch_remotive", fetch_remotive(resp),
                 Raised(remotive_try(resp)), "sleep1")

\* the sleep left out
Sleep_omitted(at, next) ==
    /\ pc = at
    /\ pc' = next
    /\ UNCHANGED <<apiKey, all_jobs, jobs, results, failed, trace, html_body,
                   message, sent, err, unitVars>>

\* time.sleep(1), lines 155 and 157
Sleep(at, next) ==
    /\ pc = at
    /\ pc' = next
    /\ trace' = Append(trace, "sleep")
    /\ UNCHANGED <<apiKey, all_jobs, jobs, results, failed, html_body, message,
                   sent, err, unitVars>>

Sleep1 == Sleep("sleep1", "fetch_topstartups")

\* line 156
FetchTopStartups ==
    /\ pc = "fetch_topstartups"
    /\ \E resp \in MainPageResponses :
          Extend(2, "fetch_topstartups", fetch_topstartups(resp),
                 Raised(topstartups_try(resp)), "sleep2")

Sleep2 == Sleep("sleep2", "fetch_wellfound")

\* line 158
FetchWellfound ==
    /\ pc = "fetch_wellfound"
    /\ \E resp \in MainPageResponses :
          Extend(3, "fetch_wellfound", fetch_wellfound(resp),
                 Raised(wellfound_try(resp)), "dedupe")

\* line 159
Dedupe ==
    /\ pc = "dedupe"
    /\ trace' = Append(trace, "dedupe_jobs")
    /\ LET o == dedupe_jobs(all_jobs)
       IN  IF Raised(o)
             THEN pc' = "raised" /\ err' = o.exc /\ jobs' = jobs
             ELSE pc' = "branch" /\ err' = err /\ jobs' = o.val
    /\ UNCHANGED <<apiKey, all_jobs, results, failed, html_body, message, sent,
                   unitVars>>

\* lines 160-162: the empty branch calls send_email with the fixed fragment
BranchEmpty ==
    /\ pc = "branch"
    /\ jobs = <<>>
    /\ html_body' = NoJobsFragment
    /\ pc' = "send_email"
    /\ UNCHANGED <<apiKey, all_jobs, jobs, results, failed, trace, message, sent,
                   err, unitVars>>

\* lines 164-165
BuildHtml ==
    /\ pc = "branch"
    /\ jobs # <<>>
    /\ html_body' = build_html_table(jobs)
    /\ trace' = Append(trace, "build_html_table")
    /\ pc' = "send_email"
    /\ UNCHANGED <<apiKey, all_jobs, jobs, results, failed, message, sent, err,
                   unitVars>>

\* "is None" for "not": an empty key passes
SendCheckKey_isNone ==
    /\ pc = "send_email"
    /\ trace' = Append(trace, "send_email")
    /\ IF apiKey = PyNone
         THEN pc' = "raised" /\ err' = "RuntimeError"
         ELSE pc' = "send_mail" /\ err' = err
    /\ UNCHANGED <<apiKey, all_jobs, jobs, results, failed, html_body, message,
                   sent, unitVars>>

\* lines 139-140
SendCheckKey ==
    /\ pc = "send_email"
    /\ trace' = Append(trace, "send_email")
    /\ IF ~Truthy(apiKey)
         THEN pc' = "raised" /\ err' = "RuntimeError"
         ELSE pc' = "send_mail" /\ err' = err
    /\ UNCHANGED <<apiKey, all_jobs, jobs, results, failed, html_body, message,
                   sent, unitVars>>

\* lines 141-146
SendBuildMail ==
    /\ pc = "send_mail"
    /\ message' = Mail(html_body)
    /\ pc' = "send_call"
    /\ UNCHANGED <<apiKey, all_jobs, jobs, results, failed, trace, html_body,
                   sent, err, unitVars>>

\* lines 147-149: sg.send returns a response, whose status is printed
SendReturns ==
    /\ pc = "send_call"
    /\ sent' = Append(sent, message)
    /\ pc' = "done"
    /\ UNCHANGED <<apiKey, all_jobs, jobs, results, failed, trace, html_body,
                   message, err, unitVars>>

\* line 148: sg.send raises (the provider rejects the request, or cannot be
\* reached); the call is in no try block, here or in main()
SendRaises ==
    /\ pc = "send_call"
    /\ sent' = Append(sent, message)
    /\ pc' = "raised"
    /\ err' = "SendError"
    /\ UNCHANGED <<apiKey, all_jobs, jobs, results, failed, trace, html_body,
                   message, unitVars>>

Init ==
    /\ InitMain
    /\ call = NoCall
    /\ ret = Pending
    /\ ret2 = Pending

Next ==
    \/ FetchRemotive
    \/ Sleep1
    \/ FetchTopStartups
    \/ Sleep2
    \/ FetchWellfound
    \/ Dedupe
    \/ BranchEmpty
    \/ BuildHtml
    \/ SendCheckKey
    \/ SendBuildMail
    \/ SendReturns
    \/ SendRaises

Spec == Init /\ [][Next]_vars

\* the statements of main() that this code bounds: a fetch returns or raises
\* within its 15 s timeout, a sleep ends; sg.send has no bound of its own
BoundedSteps ==
    \/ FetchRemotive
    \/ Sleep1
    \/ FetchTopStartups
    \/ Sleep2
    \/ FetchWellfound
    \/ Dedupe
    \/ BranchEmpty
    \/ BuildHtml
    \/ SendCheckKey
    \/ SendBuildMail

SpecFair == Spec /\ WF_vars(BoundedSteps)

-----------------------------------------------------------------------------
(* Unit harness: one function applied to one argument                      *)

UnitCall(fn, arg) == [fn |-> fn, arg |-> arg]

UnitCalls ==
    {UnitCall("fetch_remotive", r) : r \in RemotiveResponses}
    \cup {UnitCall("fetch_topstartups", r) : r \in PageResponses}
    \cup {UnitCall("fetch_wellfound", r) : r \in PageResponses}
    \cup {UnitCall("dedupe_jobs", js) : js \in SeqsUpTo(JobPool, MaxJobs)}
    \cup {UnitCall("build_html_table", js) : js \in SeqsUpTo(JobPool, MaxJobs)}

InitUnit ==
    /\ call \in UnitCalls
    /\ ret = Pending
    /\ ret2 = Pending
    /\ pc = "unit"
    /\ apiKey = PyNone
    /\ all_jobs = <<>>
    /\ jobs = <<>>
    /\ results = [i \in Sources |-> <<>>]
    /\ failed = [i \in Sources |-> FALSE]
    /\ trace = <<>>
    /\ html_body = ""
    /\ message = NoMessage
    /\ sent = <<>>
    /\ err = NoExc

Apply(fn, o) ==
    /\ call.fn = fn
    /\ ret = Pending
    /\ ret' = o
    /\ UNCHANGED <<call, ret2, mainVars>>

ApplyFetchRemotive == Apply("fetch_remotive", fetch_remotive(call.arg))

ApplyFetchTopStartups == Apply("fetch_topstartups", fetch_topstartups(call.arg))

ApplyFetchWellfound == Apply("fetch_wellfound", fetch_wellfound(call.arg))

ApplyDedupe == Apply("dedupe_jobs", dedupe_jobs(call.arg))

ApplyBuildHtml == Apply("build_html_table", Ret(build_html_table(call.arg)))

\* dedupe_jobs applied to what dedupe_jobs returned
ApplyDedupeAgain ==
    /\ call.fn = "dedupe_jobs"
    /\ ret # Pending
    /\ ~Raised(ret)
    /\ ret2 = Pending
    /\ ret2' = dedupe_jobs(ret.val)
    /\ UNCHANGED <<call, ret, mainVars>>

NextUnit ==
    \/ ApplyFetchRemotive
    \/ ApplyFetchTopStartups
    \/ ApplyFetchWellfound
    \/ ApplyDedupe
    \/ ApplyBuildHtml
    \/ ApplyDedupeAgain

SpecUnit == InitUnit /\ [][NextUnit]_vars

-----------------------------------------------------------------------------
(* Vocabulary of the properties                                            *)

\* the identity key of a job as the specification words it: the trimmed link
\* if that is non-empty, otherwise company + "|" + title
IdentityKey(j) ==
    LET trimmed == IF j.link.t = "str" THEN Strip(j.link.v) ELSE ""
    IN  IF trimmed # "" THEN trimmed ELSE PyFormat(DictGet(j.company, PyStr(""))) \o "|" \o j.title

RECURSIVE FirstOccurrences(_, _)
\* the jobs js[i] from index i on that no earlier job of js shares its key with
FirstOccurrences(js, i) ==
    IF i > Len(js) THEN <<>>
    ELSE IF \E k \in 1..(i - 1) : IdentityKey(js[k]) = IdentityKey(js[i])
         THEN FirstOccurrences(js, i + 1)
         ELSE <<js[i]>> \o FirstOccurrences(js, i + 1)

\* the number of places where sub occurs in s
CountOcc(s, sub) ==
    Cardinality({i \in 1..(Len(s) - Len(sub) + 1) : SubSeq(s, i, i + Len(sub) - 1) = sub})

HasWord(txt, w) == Contains(Lower(txt), w)

Returned(fn) == call.fn = fn /\ ret # Pending /\ ~Raised(ret)

\* (* C2 *) dedupe_jobs' output holds no two entries with the same identity key
C2_NoDuplicateKeys ==
    Returned("dedupe_jobs") =>
        \A a, b \in DOMAIN ret.val :
            a # b => IdentityKey(ret.val[a]) # IdentityKey(ret.val[b])

\* dedupe_jobs dropped a job whose link differs only by whitespace, or one
\* without a link sharing company|title with an earlier one
C2_Witness ==
    /\ Returned("dedupe_jobs")
    /\ Len(call.arg) = 3
    /\ Len(ret.val) = 1
    /\ \E i \in DOMAIN call.arg : call.arg[i].link = PyMissing
    /\ \E i \in DOMAIN call.arg : call.arg[i].link = PyNone

\* (* C3 *) dedupe_jobs returns the first occurrence of every identity key, in
\* input order, and applying it to its own output changes nothing
C3_FirstSeenOrderIdempotent ==
    Returned("dedupe_jobs") =>
        /\ ret.val = FirstOccurrences(call.arg, 1)
        /\ {IdentityKey(ret.val[i]) : i \in DOMAIN ret.val}
               = {IdentityKey(call.arg[i]) : i \in DOMAIN call.arg}
        /\ ret2 # Pending => ret2 = ret

\* a list with a duplicate between two distinct keys, deduplicated twice
C3_Witness ==
    /\ Returned("dedupe_jobs")
    /\ ret2 # Pending
    /\ Len(call.arg) = 3
    /\ Len(ret.val) = 2
    /\ IdentityKey(call.arg[1]) = IdentityKey(call.arg[3])

RenderedEmpty == call.fn = "build_html_table" /\ ret # Pending /\ call.arg = <<>>

\* (* C4, as stated *) build_html_table on an empty list gives the fixed
\* "no jobs found" paragraph and no table element
C4_EmptyGivesNoJobsFragment ==
    RenderedEmpty => ret.val = NoJobsFragment /\ ~Contains(ret.val, "<table")

\* (* C4, amended *) build_html_table on an empty list gives the heading, the
\* attribution and a table with the header row and an empty body, not the
\* "no jobs found" paragraph
C4_EmptyGivesEmptyTable ==
    RenderedEmpty =>
        /\ ret.val # NoJobsFragment
        /\ ~Contains(ret.val, "No remote Data Analyst jobs found")
        /\ CountOcc(ret.val, "<h2>") = 1
        /\ CountOcc(ret.val, "<table") = 1
        /\ CountOcc(ret.val, "<th>") = 6
        /\ Contains(ret.val, "<tbody></tbody></table>")
        /\ CountOcc(ret.val, "<td>") = 0

C4_Witness == RenderedEmpty

\* the anchors a scraper looks at after its two emptiness tests, as texts
RECURSIVE CandidateTexts(_, _)
CandidateTexts(anchors, i) ==
    IF i > Len(anchors) THEN <<>>
    ELSE IF anchors[i].href = "" \/ Strip(anchors[i].text) = ""
         THEN CandidateTexts(anchors, i + 1)
         ELSE <<Strip(anchors[i].text)>> \o CandidateTexts(anchors, i + 1)

Titles(js) == [i \in DOMAIN js |-> js[i].title]

PageTexts == IF call.arg.kind = "http" /\ call.arg.status = 200
                 THEN CandidateTexts(call.arg.body.anchors, 1)
                 ELSE <<>>

DataAndAnalyst(txt) == HasWord(txt, "data") /\ HasWord(txt, "analyst")

RECURSIVE Accepted(_, _, _)
\* the texts of txts from index i on that rule R accepts; R is "both",
\* "both<200" or "analyst<200"
Accepted(txts, i, R) ==
    IF i > Len(txts) THEN <<>>
    ELSE LET ok == CASE R = "both" -> DataAndAnalyst(txts[i])
                     [] R = "both<200" -> DataAndAnalyst(txts[i]) /\ Len(txts[i]) < 200
                     [] R = "analyst<200" -> HasWord(txts[i], "analyst") /\ Len(txts[i]) < 200
         IN  IF ok THEN <<txts[i]>> \o Accepted(txts, i + 1, R)
                   ELSE Accepted(txts, i + 1, R)

\* (* C5, as stated *) both scrapers emit exactly the anchors whose text holds
\* "data" and "analyst", fetch_topstartups only those shorter than 200
C5_BothRequireDataAndAnalyst ==
    /\ Returned("fetch_wellfound") => Titles(ret.val) = Accepted(PageTexts, 1, "both")
    /\ Returned("fetch_topstartups") => Titles(ret.val) = Accepted(PageTexts, 1, "both<200")

\* (* C5, amended *) fetch_wellfound emits exactly the anchors whose text holds
\* "data" and "analyst"; fetch_topstartups emits exactly those whose text
\* holds "analyst" and is shorter than 200 characters, "data" or not
C5_TopStartupsRequiresAnalystOnly ==
    /\ Returned("fetch_wellfound") => Titles(ret.val) = Accepted(PageTexts, 1, "both")
    /\ Returned("fetch_topstartups") => Titles(ret.val) = Accepted(PageTexts, 1, "analyst<200")

\* fetch_topstartups emitted an anchor without "data" and dropped one of 200
\* characters
C5_Witness ==
    /\ Returned("fetch_topstartups")
    /\ Len(PageTexts) = 2
    /\ Len(PageTexts[1]) = 200
    /\ Len(ret.val) = 1
    /\ ~HasWord(ret.val[1].title, "data")

FetcherCall == call.fn \in {"fetch_remotive", "fetch_topstartups", "fetch_wellfound"}

-----------------------------------------------------------------------------
(* Properties of main()                                                    *)

Last(q) == q[Len(q)]

Called(name) == \E i \in DOMAIN trace : trace[i] = name

AnyFailed == \E i \in Sources : failed[i]

Fetchers == {"fetch_remotive", "fetch_topstartups", "fetch_wellfound"}

C1_Isolated ==
    /\ \A i \in Sources : failed[i] => results[i] = <<>>
    /\ all_jobs = results[1] \o results[2] \o results[3]
    /\ pc = "raised" => Last(trace) \notin Fetchers
    /\ (AnyFailed /\ pc = "done") => Len(sent) = 1

KeyMissing == apiKey \in {PyNone, PyStr("")}

\* (* C6 *) without an API key (unset or empty) send_email raises before it
\* builds a Mail or calls the provider, and main() ends with that error
C6_NoKeyNoSend ==
    KeyMissing =>
        /\ message = NoMessage
        /\ sent = <<>>
        /\ pc \notin {"send_mail", "send_call", "done"}
        /\ Called("send_email") => pc = "raised" /\ err = "RuntimeError"

\* send_email raised on an empty key, with the "no jobs" fragment as its body
C6_Witness ==
    /\ apiKey = PyStr("")
    /\ Called("send_email")
    /\ html_body = NoJobsFragment
    /\ err = "RuntimeError"

Terminated == pc \in {"done", "raised"}

DistinctKeys(js) == {IdentityKey(js[i]) : i \in DOMAIN js}

\* (* C7 *) with an API key, main() submits exactly one email: the "no jobs"
\* fragment if no job was fetched, otherwise a table with one row for each
\* distinct identity key among the jobs the sources returned
C7_OneEmailOneRowPerKey ==
    (Terminated /\ ~KeyMissing) =>
        /\ Len(sent) = 1
        /\ LET body == sent[1].html_content
               keys == DistinctKeys(results[1] \o results[2] \o results[3])
           IN  /\ body = NoJobsFragment <=> keys = {}
               /\ keys # {} =>
                     /\ CountOcc(body, "<table") = 1
                     /\ CountOcc(body, "<tr><td>") = Cardinality(keys)

\* (* C8 *) main() ends with a raised error only when the API key is missing
C8_OnlyMissingKeyIsFatal ==
    pc = "raised" => KeyMissing

FullTrace(rendered) ==
    <<"fetch_remotive", "sleep", "fetch_topstartups", "sleep", "fetch_wellfound",
      "dedupe_jobs">>
    \o (IF rendered THEN <<"build_html_table">> ELSE <<>>)
    \o <<"send_email">>

IsPrefix(p, q) == Len(p) <= Len(q) /\ SubSeq(q, 1, Len(p)) = p

\* (* C9 *) main() calls each fetcher once, in the order API, TopStartups,
\* Wellfound, with a sleep between consecutive fetches; dedupe_jobs runs after
\* the three, on the concatenation of their results in that order; send_email
\* runs after dedupe_jobs
C9_FixedSequence ==
    /\ \E r \in BOOLEAN : IsPrefix(trace, FullTrace(r))
    /\ Called("dedupe_jobs") =>
          /\ all_jobs = results[1] \o results[2] \o results[3]
          /\ pc # "raised" => Ret(jobs) = dedupe_jobs(results[1] \o results[2] \o results[3])
    /\ (sent # <<>> \/ message # NoMessage) => Called("dedupe_jobs")
    /\ pc = "done" => Called("send_email")

\* a run that ended after a failed first fetch and a rendered table
C9_Witness ==
    /\ pc = "done"
    /\ failed[1]
    /\ trace = FullTrace(TRUE)

====
